---- MODULE Spec2Model ----
(***************************************************************************)
(* Model of scripts/monomers/monostring.py (centroFlye): construction of a *)
(* MonoString from a string-decomposer record (from_sd_record), the        *)
(* orientation vote and reversal, symbol derivation, the correction log    *)
(* written by __setitem__, and assert_monostring_validity.                 *)
(*                                                                         *)
(* Encodings.  A nucleotide sequence is a sequence of one-letter strings.  *)
(* A monomer identifier is a sequence of character codes, so that the      *)
(* trailing reverse mark can be tested and stripped as the code does.      *)
(* Strand and Reliability carry the values of the two Enums.  A raw        *)
(* percentage identity is an integer (the code divides it by 100).         *)
(***************************************************************************)
EXTENDS Integers, Sequences, FiniteSets, TLC

\* ------------------------------------------------------------------ bounds
\* length of the nucleotide sequence handed to from_sd_record
SeqLen == 2
\* largest number of rows a record keeps after the first and last are trimmed
MaxRows == 2
\* number of monomers in the monomer database (monomer_db.get_size())
DbSize == 2
\* largest number of __setitem__ calls on one MonoString
MaxCalls == 2

\* ------------------------------------------------------ program constants
FORWARD == "+"
REVERSE == "-"
RELIABLE == "+"
UNRELIABLE == "?"

\* MonoString.gap_symb is the string '?', which differs from every monomer
\* index; it is encoded as a value no index or offset index can take.
gap_symb == -1
\* MonoString.reverse_symb is "'" (character code 39)
reverse_symb == 39
\* MonoString.none_monomer is 'None'
none_monomer == <<78, 111, 110, 101>>
\* defaults of from_sd_record, as percentages: min_ident_diff = 0.0 and
\* max_ident_for_diff = 1
min_ident_diff == 0
max_ident_for_diff == 100

\* ------------------------------------------------------- python primitives
\* normalisation of one slice bound against a sequence of length n
SliceBound(i, n) ==
    IF i < 0 THEN (IF i + n < 0 THEN 0 ELSE i + n)
    ELSE IF i > n THEN n ELSE i

\* s[a:b] of a Python sequence (0-based, half open, clamped, negative bounds
\* counted from the end)
PySlice(s, a, b) ==
    LET lo == SliceBound(a, Len(s))
        hi == SliceBound(b, Len(s))
    IN  IF lo >= hi THEN <<>> ELSE SubSeq(s, lo + 1, hi)

\* list.reverse()
ListReverse(s) == [i \in 1..Len(s) |-> s[Len(s) + 1 - i]]

\* position (1-based) that s[sub] reads, 0 when s[sub] raises IndexError
PyIndex(n, sub) ==
    IF sub >= 0 THEN (IF sub < n THEN sub + 1 ELSE 0)
    ELSE (IF sub + n >= 0 THEN sub + n + 1 ELSE 0)

\* utils.bio.RC: reverse complement of a nucleotide sequence
Complement(c) ==
    CASE c = "A" -> "T"
      [] c = "T" -> "A"
      [] c = "C" -> "G"
      [] c = "G" -> "C"

RC(s) == [i \in 1..Len(s) |-> Complement(s[Len(s) + 1 - i])]

\* ------------------------------------------------------------ monomer db
\* identifier of the monomer with index i, and the database lookup
MonomerId(i) == <<65 + i>>

id2index(monomer_id) == CHOOSE i \in 0..(DbSize - 1) : MonomerId(i) = monomer_id

get_size == DbSize

\* ---------------------------------------------------------------- Strand
switch(strand) == IF strand = FORWARD THEN REVERSE ELSE FORWARD

\* ---------------------------------------------------------- MonoInstance
\* the assertion of MonoInstance.__init__
MonoInstanceInitOk(st, en, nucl_segment) == en - st = Len(nucl_segment)

is_lowercase(mi) == mi.strand = REVERSE

is_reliable(mi) == mi.reliability = RELIABLE

get_monoindex(mi) == mi.monomer

\* reverse with the strand left as it was
reverse_keep_strand(mi) ==
    [mi EXCEPT !.nucl_segment = RC(mi.nucl_segment),
               !.st = mi.seq_len - mi.en,
               !.en = mi.seq_len - mi.st]

\* reverse with st assigned before en is computed from it
reverse_sequential(mi) ==
    [mi EXCEPT !.nucl_segment = RC(mi.nucl_segment),
               !.strand = switch(mi.strand),
               !.st = mi.seq_len - mi.en,
               !.en = mi.seq_len - (mi.seq_len - mi.en)]

reverse(mi) ==
    [mi EXCEPT !.nucl_segment = RC(mi.nucl_segment),
               !.strand = switch(mi.strand),
               !.st = mi.seq_len - mi.en,
               !.en = mi.seq_len - mi.st]

\* --------------------------------------------------------- from_sd_record
\* id2index_strand: has_index is FALSE for the index None
id2index_strand(monomer_id) ==
    IF monomer_id = none_monomer
    THEN [has_index |-> FALSE, index |-> 0, strand |-> FORWARD]
    ELSE IF monomer_id[Len(monomer_id)] = reverse_symb
         THEN [has_index |-> TRUE,
               index |-> id2index(SubSeq(monomer_id, 1, Len(monomer_id) - 1)),
               strand |-> REVERSE]
         ELSE [has_index |-> TRUE, index |-> id2index(monomer_id),
               strand |-> FORWARD]

Abs(x) == IF x < 0 THEN 0 - x ELSE x

\* one step of get_reliablities
get_reliablity(raw_rel, ident, sec_ident) ==
    IF Abs(ident - sec_ident) < min_ident_diff /\ sec_ident > max_ident_for_diff
    THEN UNRELIABLE
    ELSE raw_rel

\* the instance built from one row (loop body of get_monoinstances)
RowInstance(row, nucl) ==
    LET st == row.s_st
        en == row.s_en + 1
        is == id2index_strand(row.monomer)
    IN  [monomer |-> is.index,
         strand |-> is.strand,
         nucl_segment |-> PySlice(nucl, st, en),
         st |-> st,
         en |-> en,
         seq_len |-> Len(nucl),
         reliability |-> get_reliablity(row.reliability, row.identity,
                                        row.sec_identity)]

\* the exception one row raises in get_monoinstances, "none" if it raises none
RowExc(row, nucl) ==
    IF ~id2index_strand(row.monomer).has_index THEN "LookupError"
    ELSE IF ~MonoInstanceInitOk(row.s_st, row.s_en + 1,
                                PySlice(nucl, row.s_st, row.s_en + 1))
         THEN "AssertionError"
         ELSE "none"

\* get_monoinstances: exc is the exception raised, val the list returned
get_monoinstances(record, nucl) ==
    IF record = <<>> THEN [exc |-> "ValueError", val |-> <<>>]
    ELSE LET bad == {i \in 1..Len(record) : RowExc(record[i], nucl) /= "none"}
         IN  IF bad /= {}
             THEN [exc |-> RowExc(record[CHOOSE i \in bad :
                                            \A j \in bad : i <= j], nucl),
                   val |-> <<>>]
             ELSE [exc |-> "none",
                   val |-> [i \in 1..Len(record) |->
                               RowInstance(record[i], nucl)]]

\* number of reliable instances, and of reliable instances on REVERSE
NumReliable(insts) == Cardinality({i \in 1..Len(insts) : is_reliable(insts[i])})

NumReliableLower(insts) ==
    Cardinality({i \in 1..Len(insts) :
                    is_reliable(insts[i]) /\ is_lowercase(insts[i])})

\* the vote with >= in place of >
perc_lower_case_at_least(insts) ==
    NumReliable(insts) > 0 /\ 2 * NumReliableLower(insts) >= NumReliable(insts)

\* np.mean(is_lowercase) > max_lowercase with max_lowercase = 0.5; the mean of
\* the empty list is nan, and nan > 0.5 is False
perc_lower_case_exceeds(insts) ==
    NumReliable(insts) > 0 /\ 2 * NumReliableLower(insts) > NumReliable(insts)

\* the reversal performed by reverse_if_needed when is_reversed
reverse_monostring(insts, nucl) ==
    [monoinstances |-> [i \in 1..Len(insts) |-> reverse(ListReverse(insts)[i])],
     nucl_sequence |-> RC(nucl)]

reverse_if_needed(insts, nucl) ==
    LET is_rev == perc_lower_case_exceeds(insts)
    IN  IF is_rev
        THEN [monoinstances |-> reverse_monostring(insts, nucl).monoinstances,
              nucl_sequence |-> reverse_monostring(insts, nucl).nucl_sequence,
              is_reversed |-> TRUE]
        ELSE [monoinstances |-> insts, nucl_sequence |-> nucl,
              is_reversed |-> FALSE]

\* get_string without the gap symbol: the index is emitted for every instance
get_symbol_nogap(mi) ==
    IF mi.strand = FORWARD
    THEN get_monoindex(mi)
    ELSE get_monoindex(mi) + get_size

\* one symbol of get_string
get_symbol(mi) ==
    IF mi.reliability = RELIABLE
    THEN IF mi.strand = FORWARD
         THEN get_monoindex(mi)
         ELSE get_monoindex(mi) + get_size
    ELSE gap_symb

get_string(insts) == [i \in 1..Len(insts) |-> get_symbol(insts[i])]

\* ------------------------------------------------ assert_monostring_validity
\* first loop: every RELIABLE position carries its instance's symbol
\* (string[i] raises IndexError when the string is shorter)
SymbolsValid(insts, string) ==
    \A i \in 1..Len(insts) :
        insts[i].reliability = RELIABLE =>
            /\ i <= Len(string)
            /\ string[i] = get_monoindex(insts[i])
                            + (IF insts[i].strand = REVERSE THEN get_size ELSE 0)

\* the second loop comparing only the length of the segment with en - st
SegmentsValid_lengths(insts, nucl) ==
    \A i \in 1..Len(insts) :
        insts[i].en - insts[i].st = Len(insts[i].nucl_segment)

\* second loop: every instance's segment is the slice at its coordinates
SegmentsValid(insts, nucl) ==
    \A i \in 1..Len(insts) :
        PySlice(nucl, insts[i].st, insts[i].en) = insts[i].nucl_segment

assert_monostring_validity(insts, string, nucl) ==
    SymbolsValid(insts, string) /\ SegmentsValid(insts, nucl)

\* ------------------------------------------------------------- MonoString
\* __setitem__ refusing a position that the log already holds
setitem_once(string, type, corr, sub, item) ==
    LET idx == PyIndex(Len(string), sub)
        logged == [k \in DOMAIN corr \cup {sub} |->
                      IF k = sub THEN <<string[idx], item>> ELSE corr[k]]
    IN  IF idx = 0
        THEN [exc |-> "IndexError", raw_monostring |-> string,
              corrections |-> corr]
        ELSE IF string[idx] = item \/ sub \in DOMAIN corr
        THEN [exc |-> "AssertionError", raw_monostring |-> string,
              corrections |-> corr]
        ELSE IF type = "tuple"
        THEN [exc |-> "TypeError", raw_monostring |-> string,
              corrections |-> logged]
        ELSE [exc |-> "none",
              raw_monostring |-> [string EXCEPT ![idx] = item],
              corrections |-> logged]

\* MonoString.__setitem__(sub, item) on a raw_monostring of the given type:
\* the exception raised ("none" if none) and the fields as the call leaves
\* them.  Line 249 reads raw_monostring[sub] (IndexError) and asserts, line
\* 250 writes the log, line 251 assigns the item, which a tuple refuses.
setitem(string, type, corr, sub, item) ==
    LET idx == PyIndex(Len(string), sub)
        logged == [k \in DOMAIN corr \cup {sub} |->
                      IF k = sub THEN <<string[idx], item>> ELSE corr[k]]
    IN  IF idx = 0
        THEN [exc |-> "IndexError", raw_monostring |-> string,
              corrections |-> corr]
        ELSE IF string[idx] = item
        THEN [exc |-> "AssertionError", raw_monostring |-> string,
              corrections |-> corr]
        ELSE IF type = "tuple"
        THEN [exc |-> "TypeError", raw_monostring |-> string,
              corrections |-> logged]
        ELSE [exc |-> "none",
              raw_monostring |-> [string EXCEPT ![idx] = item],
              corrections |-> logged]

\* MonoString.is_corrected: len(self.corrections)
is_corrected(corr) == Cardinality(DOMAIN corr)

\* MonoString.__init__: the object is kept only if the validity check passes
MonoString_init(insts, string, nucl) ==
    assert_monostring_validity(insts, string, nucl)

NoObject(exc) ==
    [exc |-> exc, monoinstances |-> <<>>, raw_monostring |-> <<>>,
     nucl_sequence |-> <<>>, is_reversed |-> FALSE]

\* from_sd_record with the default min_ident_diff and max_ident_for_diff:
\* the fields of the MonoString returned, or the exception raised
from_sd_record(record, nucl) ==
    LET trimmed == PySlice(record, 1, -1)
        gm == get_monoinstances(trimmed, nucl)
        r == reverse_if_needed(gm.val, nucl)
        string == get_string(r.monoinstances)
    IN  IF gm.exc /= "none" THEN NoObject(gm.exc)
        ELSE IF ~MonoString_init(r.monoinstances, string, r.nucl_sequence)
             THEN NoObject("AssertionError")
             ELSE [exc |-> "none",
                   monoinstances |-> r.monoinstances,
                   raw_monostring |-> string,
                   nucl_sequence |-> r.nucl_sequence,
                   is_reversed |-> r.is_reversed]

\* ------------------------------------------------------------------ state
VARIABLES
    sd_record,       \* the record handed to the constructor (untrimmed)
    nucl_input,      \* the nucleotide sequence handed to the constructor
    pc,              \* "input", "built" or "failed"
    monoinstances,   \* MonoString.monoinstances
    raw_monostring,  \* MonoString.raw_monostring
    raw_type,        \* "tuple" or "list": the type of raw_monostring
    nucl_sequence,   \* MonoString.nucl_sequence
    is_reversed,     \* MonoString.is_reversed
    corrections,     \* MonoString.corrections: position -> <<old, new>>
    last,            \* the last call made: operation, arguments, exception
    ncalls           \* number of __setitem__ calls made so far

vars == <<sd_record, nucl_input, pc, monoinstances, raw_monostring, raw_type,
          nucl_sequence, is_reversed, corrections, last, ncalls>>

inputs == <<sd_record, nucl_input>>

EmptyDict == [k \in {} |-> <<0, 0>>]

Call(op, sub, item, exc) == [op |-> op, sub |-> sub, item |-> item, exc |-> exc]

\* ----------------------------------------------------------------- inputs
\* sequences over A and C, whose reverse complement is never the sequence
\* itself, and over A and T, some of which are their own reverse complement
NuclSeqs == [1..SeqLen -> {"A", "C"}] \cup [1..SeqLen -> {"A", "T"}]

MonomerIds ==
    {MonomerId(i) : i \in 0..(DbSize - 1)}
        \cup {Append(MonomerId(i), reverse_symb) : i \in 0..(DbSize - 1)}

Reliabilities == {RELIABLE, UNRELIABLE}

Row(st, s_en, id, rel) ==
    [s_st |-> st, s_en |-> s_en, monomer |-> id, reliability |-> rel,
     identity |-> 95, sec_identity |-> 90]

\* a row anywhere on or off the sequence: s_st in -SeqLen..SeqLen and a
\* segment of length -1 (inverted), 0 (empty), 1 or 2
AnyRows ==
    {Row(st, st + d, id, rel) :
        st \in (0 - SeqLen)..SeqLen, d \in (0 - 2)..1,
        id \in MonomerIds \cup {none_monomer}, rel \in Reliabilities}

\* the k-th row of a tiling of the sequence by one-base segments
TileRows(k) ==
    {Row((k - 1) % SeqLen, (k - 1) % SeqLen, id, rel) :
        id \in MonomerIds, rel \in Reliabilities}

\* the first and last row of a record, which the constructor discards
EdgeRow == Row(0, 0, Append(MonomerId(0), reverse_symb), RELIABLE)

\* rows k..n of the tiling, in order
RECURSIVE TileSeqs(_, _)
TileSeqs(k, n) ==
    IF k > n THEN {<<>>}
    ELSE {<<r>> \o t : r \in TileRows(k), t \in TileSeqs(k + 1, n)}

\* a record: the two discarded rows around the kept rows
Record(rows) == <<EdgeRow>> \o rows \o <<EdgeRow>>

\* ---------------------------------------------------------------- actions
InitObject ==
    /\ pc = "input"
    /\ monoinstances = <<>>
    /\ raw_monostring = <<>>
    /\ raw_type = "tuple"
    /\ nucl_sequence = <<>>
    /\ is_reversed = FALSE
    /\ corrections = EmptyDict
    /\ last = Call("none", 0, 0, "none")
    /\ ncalls = 0

\* the inputs: a record that keeps no row, or one that keeps a row of AnyRows
\* followed by rows of the tiling, and a sequence of SeqLen nucleotides
Init ==
    /\ \/ sd_record = Record(<<>>)
       \/ \E n \in 1..MaxRows : \E a \in AnyRows : \E t \in TileSeqs(2, n) :
              sd_record = Record(<<a>> \o t)
    /\ nucl_input \in NuclSeqs
    /\ InitObject

\* MonoString.from_sd_record(seq_id, monomer_db, sd_record, nucl_sequence)
Construct(type) ==
    /\ pc = "input"
    /\ \E ms \in {from_sd_record(sd_record, nucl_input)} :
           /\ pc' = IF ms.exc = "none" THEN "built" ELSE "failed"
           /\ monoinstances' = ms.monoinstances
           /\ raw_monostring' = ms.raw_monostring
           /\ nucl_sequence' = ms.nucl_sequence
           /\ is_reversed' = ms.is_reversed
           /\ last' = Call("from_sd_record", 0, 0, ms.exc)
    /\ raw_type' = type
    /\ corrections' = EmptyDict
    /\ UNCHANGED <<inputs, ncalls>>

FromSdRecord == Construct("tuple")

\* MonoString(seq_id, monoinstances, raw_monostring, nucl_sequence,
\* monomer_db, is_reversed) called with the same components and the symbols
\* in a list
FromList == Construct("list")

\* the symbols a caller may store
Symbols == {gap_symb} \cup 0..(2 * DbSize - 1)

\* monostring[sub] = item
SetItem ==
    /\ pc = "built"
    /\ ncalls < MaxCalls
    /\ \E sub \in (0 - 1)..Len(raw_monostring) : \E item \in Symbols :
         \E res \in {setitem(raw_monostring, raw_type, corrections, sub, item)} :
           /\ raw_monostring' = res.raw_monostring
           /\ corrections' = res.corrections
           /\ last' = Call("__setitem__", sub, item, res.exc)
    /\ ncalls' = ncalls + 1
    /\ UNCHANGED <<inputs, pc, monoinstances, raw_type, nucl_sequence,
                   is_reversed>>

\* assert_monostring_validity(monostring) run by a caller on the object
CheckValidity ==
    /\ pc = "built"
    /\ last' = Call("assert_monostring_validity", 0, 0,
                    IF assert_monostring_validity(monoinstances,
                                                  raw_monostring, nucl_sequence)
                    THEN "none" ELSE "AssertionError")
    /\ UNCHANGED <<inputs, pc, monoinstances, raw_monostring, raw_type,
                   nucl_sequence, is_reversed, corrections, ncalls>>

\* construction alone, over all the inputs
Next == FromSdRecord

Spec == Init /\ [][Next]_vars

\* ------------------------------------------ the object after construction
\* the n rows of a record on one strand whose first r rows are RELIABLE
StrandRows(n, strand, r) ==
    [k \in 1..n |->
        Row((k - 1) % SeqLen, (k - 1) % SeqLen,
            IF strand = REVERSE
            THEN Append(MonomerId((k - 1) % DbSize), reverse_symb)
            ELSE MonomerId((k - 1) % DbSize),
            IF k <= r THEN RELIABLE ELSE UNRELIABLE)]

\* the inputs of the objects that are then corrected and re-checked: records
\* of 1..MaxRows kept rows on one strand, the first r of them RELIABLE
InitCorr ==
    /\ \E n \in 1..MaxRows : \E strand \in {FORWARD, REVERSE} : \E r \in 0..n :
          sd_record = Record(StrandRows(n, strand, r))
    /\ nucl_input = [i \in 1..SeqLen |-> IF i % 2 = 1 THEN "A" ELSE "C"]
    /\ InitObject

\* construction, by from_sd_record or with a list, then corrections and checks
NextCorr == FromSdRecord \/ FromList \/ SetItem \/ CheckValidity

SpecCorr == InitCorr /\ [][NextCorr]_vars

\* ==================================================================== claims
\* the rows from_sd_record keeps: sd_record[1:-1]
Trimmed == SubSeq(sd_record, 2, Len(sd_record) - 1)

\* a row whose primary monomer identifier carries the reverse mark
RowIsReverse(row) == row.monomer[Len(row.monomer)] = reverse_symb

Positions == 1..Len(monoinstances)

\* --------------------------------------------------------------------- C1
\* C1: in every MonoString that from_sd_record returns, reversed or not, the
\* stored nucleotide sequence sliced at an instance's st and en is that
\* instance's nucl_segment.
C1_SegmentConsistency ==
    pc = "built" =>
        \A i \in Positions :
            PySlice(nucl_sequence, monoinstances[i].st, monoinstances[i].en)
                = monoinstances[i].nucl_segment

\* a reversed MonoString of two instances, one with a two-base segment
C1_Witness ==
    /\ pc = "built"
    /\ is_reversed
    /\ Len(monoinstances) = 2
    /\ \E i \in Positions : Len(monoinstances[i].nucl_segment) = 2

\* --------------------------------------------------------------------- C2
\* C2: in every MonoString that from_sd_record returns, the symbol at an
\* UNRELIABLE instance is the gap symbol, and the symbol at a RELIABLE
\* instance is its monomer index on FORWARD and the index plus the database
\* size on REVERSE (the strand after any reversal).
C2_SymbolDerivation ==
    pc = "built" =>
        /\ Len(raw_monostring) = Len(monoinstances)
        /\ \A i \in Positions :
            LET mi == monoinstances[i]
            IN  /\ mi.reliability = UNRELIABLE => raw_monostring[i] = gap_symb
                /\ (mi.reliability = RELIABLE /\ mi.strand = FORWARD)
                      => raw_monostring[i] = mi.monomer
                /\ (mi.reliability = RELIABLE /\ mi.strand = REVERSE)
                      => raw_monostring[i] = mi.monomer + DbSize

\* a reversed MonoString with an UNRELIABLE instance and a RELIABLE instance
\* of the second monomer left on REVERSE
C2_Witness ==
    /\ pc = "built"
    /\ is_reversed
    /\ \E i \in Positions : monoinstances[i].reliability = UNRELIABLE
    /\ \E i \in Positions :
          /\ monoinstances[i].reliability = RELIABLE
          /\ monoinstances[i].strand = FORWARD
          /\ monoinstances[i].monomer = 1
          /\ raw_monostring[i] = 1

\* --------------------------------------------------------------------- C3
NumRowsReliable ==
    Cardinality({k \in 1..Len(Trimmed) : Trimmed[k].reliability = RELIABLE})

NumRowsReliableReverse ==
    Cardinality({k \in 1..Len(Trimmed) :
                    /\ Trimmed[k].reliability = RELIABLE
                    /\ RowIsReverse(Trimmed[k])})

\* C3: is_reversed is True exactly when more than half of the RELIABLE rows
\* of the trimmed record are on REVERSE; exactly half gives False, and the
\* UNRELIABLE rows do not count.
C3_MajorityRule ==
    pc = "built" =>
        (is_reversed <=> (2 * NumRowsReliableReverse > NumRowsReliable))

\* two RELIABLE rows, one on each strand: the fraction is exactly 0.5
C3_Witness ==
    /\ pc = "built"
    /\ NumRowsReliable = 2
    /\ NumRowsReliableReverse = 1
    /\ ~is_reversed

\* --------------------------------------------------------------------- C8
\* C8: the reversal step (reverse the list, reverse every instance, reverse
\* complement the sequence) applied twice restores the instances, the
\* nucleotide sequence and the derived symbols; applied once to a MonoString
\* that the constructor reversed, it gives back the instances and the
\* sequence the constructor started from.
C8_ReversalInvolution ==
    pc = "built" =>
        LET once == reverse_monostring(monoinstances, nucl_sequence)
            twice == reverse_monostring(once.monoinstances, once.nucl_sequence)
        IN  /\ twice.monoinstances = monoinstances
            /\ twice.nucl_sequence = nucl_sequence
            /\ get_string(twice.monoinstances) = raw_monostring
            /\ is_reversed =>
                  /\ once.nucl_sequence = nucl_input
                  /\ once.monoinstances
                        = [k \in 1..Len(Trimmed) |->
                              RowInstance(Trimmed[k], nucl_input)]

\* a reversed MonoString of two instances on a sequence that is not its own
\* reverse complement, with an instance off the middle of the sequence
C8_Witness ==
    /\ pc = "built"
    /\ is_reversed
    /\ Len(monoinstances) = 2
    /\ nucl_sequence /= nucl_input
    /\ \E i \in Positions :
          monoinstances[i].st /= SeqLen - monoinstances[i].en

\* --------------------------------------------------------------------- C9
\* C9: every instance of a MonoString that from_sd_record returns has
\* 0 <= st < en <= seq_len with seq_len the length of the stored sequence,
\* and no object is returned for a record with a kept row whose coordinates
\* break this.
C9_CoordinateRange ==
    pc = "built" =>
        /\ \A i \in Positions :
              /\ 0 <= monoinstances[i].st
              /\ monoinstances[i].st < monoinstances[i].en
              /\ monoinstances[i].en <= monoinstances[i].seq_len
              /\ monoinstances[i].seq_len = Len(nucl_sequence)
        /\ \A k \in 1..Len(Trimmed) :
              /\ 0 <= Trimmed[k].s_st
              /\ Trimmed[k].s_st < Trimmed[k].s_en + 1
              /\ Trimmed[k].s_en + 1 <= Len(nucl_input)

\* -------------------------------------------------------------------- C10
NumFinalReliable ==
    Cardinality({i \in Positions : monoinstances[i].reliability = RELIABLE})

NumFinalReliableReverse ==
    Cardinality({i \in Positions :
                    /\ monoinstances[i].reliability = RELIABLE
                    /\ monoinstances[i].strand = REVERSE})

\* C10: in every MonoString that from_sd_record returns with a RELIABLE
\* instance, at most half of the RELIABLE instances are on REVERSE
\* (get_perc_lowercase() <= 0.5), reversed or not.
C10_OrientationNormalized ==
    (pc = "built" /\ NumFinalReliable > 0) =>
        2 * NumFinalReliableReverse <= NumFinalReliable

\* a reversed MonoString whose two RELIABLE instances are now on FORWARD
C10_Witness ==
    /\ pc = "built"
    /\ is_reversed
    /\ NumFinalReliable = 2
    /\ NumFinalReliableReverse = 0

\* ------------------------------------------------- claims on __setitem__
\* a step that is a __setitem__ call; last' holds its arguments and outcome
SetItemStep == ncalls' = ncalls + 1

\* the symbol that raw_monostring[sub] reads before the call of the step
CurrentSymbol(sub) == raw_monostring[PyIndex(Len(raw_monostring), sub)]

\* --------------------------------------------------------------------- C4
\* C4: on a MonoString that from_sd_record produced, a __setitem__ call at a
\* position p with 0 <= p < length and a value v other than the symbol at p
\* succeeds, and afterwards is_corrected() is true, corrections[p] is
\* (old symbol, v) and the symbol at p is v.
C4_SetSymbolSucceeds ==
    [][(/\ SetItemStep
        /\ raw_type = "tuple"
        /\ 0 <= last'.sub
        /\ last'.sub < Len(raw_monostring)
        /\ last'.item /= CurrentSymbol(last'.sub))
       => (/\ last'.exc = "none"
           /\ is_corrected(corrections') > 0
           /\ corrections'[last'.sub] = <<CurrentSymbol(last'.sub), last'.item>>
           /\ raw_monostring'[last'.sub + 1] = last'.item)]_vars

\* --------------------------------------------------------------------- C5
\* C5: a __setitem__ call that fails leaves the symbol sequence and the
\* correction log as they were before the call.
C5_FailedSetLeavesState ==
    [][(SetItemStep /\ last'.exc /= "none")
       => (raw_monostring' = raw_monostring /\ corrections' = corrections)]_vars

C7_CheckerSkipsCorrections ==
    (pc = "built" /\ last.op = "assert_monostring_validity") =>
        /\ last.exc = "none"
        /\ last.exc /= "none" =>
              \/ \E i \in Positions :
                    /\ (i - 1) \notin DOMAIN corrections
                    /\ monoinstances[i].reliability = RELIABLE
                    /\ raw_monostring[i] /= get_symbol(monoinstances[i])
              \/ \E i \in Positions :
                    PySlice(nucl_sequence, monoinstances[i].st,
                            monoinstances[i].en)
                        /= monoinstances[i].nucl_segment

====
